---- MODULE Spec2Model ----
(***************************************************************************)
(* Iterated Prisoner's Dilemma (src/src/main.rs): the payoff matrix, the   *)
(* four opponent strategies, the round loop of main, the statistics fold   *)
(* and the load/save of the persisted statistics record.                   *)
(***************************************************************************)
EXTENDS Integers, Sequences, FiniteSets, TLC

VARIABLES
    pc,               \* where main is blocked: the prompt it waits at, or the loop head
    file,             \* the content of game_stats.json on disk
    stats,            \* main's local `stats` (Statistics)
    difficulty,       \* main's local `difficulty`
    rounds,           \* main's local `rounds`, the bound of `for _ in 0..rounds`
    iter,             \* iterations of the for loop started so far
    state,            \* main's local `state` (GameState)
    player_move,      \* the loop body's local `player_move`
    computer_move,    \* the loop body's local `computer_move`
    overflow_checks,  \* whether the build traps integer overflow: unset until it first matters
    games,            \* history variable: GameStates created by this process
    saves,            \* history variable: calls of stats.save() by this process
    input,            \* history variable: the line last read, where a run records it
    loaded,           \* history variable: the record Statistics::load returned into `stats`
    folded            \* history variable: the games folded into `stats` since it was loaded

vars == <<pc, file, stats, difficulty, rounds, iter, state, player_move,
          computer_move, overflow_checks, games, saves, input, loaded, folded>>

\* all of them but `input`
program == <<pc, file, stats, difficulty, rounds, iter, state, player_move,
             computer_move, overflow_checks, games, saves, loaded, folded>>

----------------------------------------------------------------------------
(* Bounds of the exploration. *)

\* the largest round count entered at the prompt (the code accepts up to 50)
MaxRounds == 2
\* the number of games one process plays
MaxGames == 1
\* the longest history handed to the strategy selector on its own
MaxHist == 5
\* the number of games folded into one Statistics record by the fold on its own
MaxFolds == 2
\* the longest game folded by the fold on its own
MaxFoldRounds == 1
\* the number of games one process plays where the lines read are recorded
MaxInputGames == 2

----------------------------------------------------------------------------
(* Types and integer widths. *)

Cooperate == "Cooperate"
Defect == "Defect"
Move == {Cooperate, Defect}
NoMove == "none"

Difficulty == {"Easy", "Medium", "Hard", "Legendary"}

\* i32::MAX and i32::MIN
I32Max == 2147483647
I32Min == (-I32Max) - 1

\* A u32 is kept as two limbs, value = hi * 2^31 + lo with hi in 0..1 and
\* lo in 0..2^31-1, so that every value of the type is representable.
U32(n) == [hi |-> 0, lo |-> n]
U32Max == [hi |-> 1, lo |-> I32Max]
U32Succ(x) == IF x.lo < I32Max THEN [x EXCEPT !.lo = @ + 1] ELSE [hi |-> 1, lo |-> 0]

Max(a, b) == IF a >= b THEN a ELSE b
Min(a, b) == IF a <= b THEN a ELSE b

----------------------------------------------------------------------------
(* Statistics. *)

Statistics_new ==
    [games_played |-> U32(0), games_won |-> U32(0), games_lost |-> U32(0),
     games_tied |-> U32(0), total_points |-> 0,
     best_score_differential |-> 0, worst_score_differential |-> 0]

U32Fields == {"games_played", "games_won", "games_lost", "games_tied"}
I32Fields == {"total_points", "best_score_differential", "worst_score_differential"}
Fields == U32Fields \cup I32Fields

\* The decimal text of a number, as a sequence of digits, most significant first.
RECURSIVE Digits(_)
Digits(n) == IF n < 10 THEN <<n>> ELSE Append(Digits(n \div 10), n % 10)

RECURSIVE DigitsValue(_)
DigitsValue(ds) ==
    IF ds = <<>> THEN 0
    ELSE 10 * DigitsValue(SubSeq(ds, 1, Len(ds) - 1)) + ds[Len(ds)]

\* the digits of high * 10^5 + low, low < 10^5
Decimal(high, low) ==
    IF high = 0 THEN Digits(low)
    ELSE Digits(high) \o <<low \div 10000, (low \div 1000) % 10, (low \div 100) % 10,
                           (low \div 10) % 10, low % 10>>

\* a text of at most ten digits as high * 10^5 + low
SplitDecimal(ds) ==
    IF Len(ds) <= 5 THEN [high |-> 0, low |-> DigitsValue(ds)]
    ELSE [high |-> DigitsValue(SubSeq(ds, 1, Len(ds) - 5)),
          low |-> DigitsValue(SubSeq(ds, Len(ds) - 4, Len(ds)))]

\* A JSON value: a number written without fraction or exponent, a value of
\* another kind (string, null, fraction, ...), or no member of that name.
JsonNum(neg, digits) == [t |-> "num", neg |-> neg, digits |-> digits]
JsonOther == [t |-> "other", neg |-> FALSE, digits |-> <<>>]
JsonNoMember == [t |-> "none", neg |-> FALSE, digits |-> <<>>]

\* Serialize for u32: the decimal text of hi * 2^31 + lo (2^31 = 21474 83648)
U32ToJson(x) ==
    LET a == x.lo \div 100000
        b == (x.lo % 100000) + (IF x.hi = 1 THEN 83648 ELSE 0)
        high == a + (b \div 100000) + (IF x.hi = 1 THEN 21474 ELSE 0)
    IN  JsonNum(FALSE, Decimal(high, b % 100000))

\* Serialize for i32 writing the magnitude without the sign
I32ToJson_unsigned(n) ==
    IF n >= 0 THEN JsonNum(FALSE, Digits(n))
    ELSE LET m == -(n + 1)
             b == (m % 100000) + 1
         IN  JsonNum(FALSE, Decimal((m \div 100000) + (b \div 100000), b % 100000))

\* Serialize for i32: a minus sign and the magnitude for a negative number
I32ToJson(n) ==
    IF n >= 0 THEN JsonNum(FALSE, Digits(n))
    ELSE LET m == -(n + 1)
             b == (m % 100000) + 1
         IN  JsonNum(TRUE, Decimal((m \div 100000) + (b \div 100000), b % 100000))

ParseError == [ok |-> FALSE, val |-> 0]

\* what serde_json hands to a 32-bit integer visitor as an integer that may fit:
\* no leading zero, not "-0" (a float), at most ten digits
IsJsonInteger(v) ==
    /\ v.t = "num"
    /\ Len(v.digits) >= 1
    /\ Len(v.digits) <= 10
    /\ Len(v.digits) > 1 => v.digits[1] # 0
    /\ v.neg => v.digits # <<0>>

\* Deserialize for u32: a non-negative integer up to 42949 67295
JsonToU32(v) ==
    IF ~IsJsonInteger(v) \/ v.neg THEN ParseError
    ELSE LET d == SplitDecimal(v.digits)
         IN  IF d.high > 42949 \/ (d.high = 42949 /\ d.low > 67295) THEN ParseError
             ELSE IF d.high < 21474 \/ (d.high = 21474 /\ d.low <= 83647)
             THEN [ok |-> TRUE, val |-> [hi |-> 0, lo |-> d.high * 100000 + d.low]]
             ELSE IF d.low >= 83648
             THEN [ok |-> TRUE,
                   val |-> [hi |-> 1, lo |-> (d.high - 21474) * 100000 + (d.low - 83648)]]
             ELSE [ok |-> TRUE,
                   val |-> [hi |-> 1, lo |-> (d.high - 21475) * 100000 + (d.low + 16352)]]

\* Deserialize for i32: an integer from -21474 83648 to 21474 83647
JsonToI32(v) ==
    IF ~IsJsonInteger(v) THEN ParseError
    ELSE LET d == SplitDecimal(v.digits)
         IN  IF d.high < 21474 \/ (d.high = 21474 /\ d.low <= 83647)
             THEN [ok |-> TRUE,
                   val |-> IF v.neg THEN -(d.high * 100000 + d.low)
                           ELSE d.high * 100000 + d.low]
             ELSE IF v.neg /\ d.high = 21474 /\ d.low = 83648
             THEN [ok |-> TRUE, val |-> I32Min]
             ELSE ParseError

\* serde_json::to_string_pretty(self): an object with the seven members
to_string_pretty(s) ==
    [k \in Fields |-> IF k \in U32Fields THEN U32ToJson(s[k]) ELSE I32ToJson(s[k])]

NoMembers == [k \in Fields |-> JsonNoMember]

\* The file: absent; present but unreadable as text; or a text, which is a JSON
\* object with members, or not.
FileAbsent == [kind |-> "absent", json |-> FALSE, members |-> NoMembers]
FileUnreadable == [kind |-> "unreadable", json |-> FALSE, members |-> NoMembers]
FileCorrupt == [kind |-> "text", json |-> FALSE, members |-> NoMembers]
FileWith(members) == [kind |-> "text", json |-> TRUE, members |-> members]
FileOf(s) == FileWith(to_string_pretty(s))

\* serde_json::from_str::<Statistics>: every member must be there and fit its
\* field's type
from_str(f) ==
    LET m == [k \in Fields |-> IF k \in U32Fields THEN JsonToU32(f.members[k])
                                ELSE JsonToI32(f.members[k])]
    IN  IF f.json /\ \A k \in Fields : m[k].ok
        THEN [ok |-> TRUE,
              val |-> [games_played |-> m["games_played"].val,
                       games_won |-> m["games_won"].val,
                       games_lost |-> m["games_lost"].val,
                       games_tied |-> m["games_tied"].val,
                       total_points |-> m["total_points"].val,
                       best_score_differential |-> m["best_score_differential"].val,
                       worst_score_differential |-> m["worst_score_differential"].val]]
        ELSE [ok |-> FALSE, val |-> Statistics_new]

\* Statistics::load taking each member that parses and the default for the rest
Statistics_load_by_member(f) ==
    IF f.kind # "text" \/ ~f.json THEN Statistics_new
    ELSE [games_played |-> IF JsonToU32(f.members["games_played"]).ok
                           THEN JsonToU32(f.members["games_played"]).val ELSE U32(0),
          games_won |-> IF JsonToU32(f.members["games_won"]).ok
                        THEN JsonToU32(f.members["games_won"]).val ELSE U32(0),
          games_lost |-> IF JsonToU32(f.members["games_lost"]).ok
                         THEN JsonToU32(f.members["games_lost"]).val ELSE U32(0),
          games_tied |-> IF JsonToU32(f.members["games_tied"]).ok
                         THEN JsonToU32(f.members["games_tied"]).val ELSE U32(0),
          total_points |-> IF JsonToI32(f.members["total_points"]).ok
                           THEN JsonToI32(f.members["total_points"]).val ELSE 0,
          best_score_differential |->
              IF JsonToI32(f.members["best_score_differential"]).ok
              THEN JsonToI32(f.members["best_score_differential"]).val ELSE 0,
          worst_score_differential |->
              IF JsonToI32(f.members["worst_score_differential"]).ok
              THEN JsonToI32(f.members["worst_score_differential"]).val ELSE 0]

\* Statistics::load: Path::exists, then read_to_string, then from_str, each
\* falling through to Statistics::new()
Statistics_load(f) ==
    IF f.kind = "absent" THEN Statistics_new
    ELSE IF f.kind = "unreadable" THEN Statistics_new
    ELSE IF from_str(f).ok THEN from_str(f).val
    ELSE Statistics_new

\* fs::write creates or truncates the file and then writes: it succeeds, fails
\* before touching the file, or fails leaving a truncated file. The result is
\* discarded (`let _ =`).
WriteOutcomes == {"written", "failed", "truncated"}
Statistics_save(s, f, w) ==
    CASE w = "written" -> FileOf(s)
      [] w = "failed" -> f
      [] OTHER -> FileCorrupt

----------------------------------------------------------------------------
(* GameState. *)

GameState_new(total_rounds, d) ==
    [player_score |-> 0, computer_score |-> 0, round |-> 0,
     total_rounds |-> total_rounds, history |-> <<>>, difficulty |-> d]

\* calculate_payoff leaving the betrayed cooperator one point
calculate_payoff_consolation(self, pm, cm) ==
    CASE pm = Cooperate /\ cm = Cooperate -> <<3, 3>>
      [] pm = Cooperate /\ cm = Defect -> <<1, 5>>
      [] pm = Defect /\ cm = Cooperate -> <<5, 1>>
      [] pm = Defect /\ cm = Defect -> <<1, 1>>

\* calculate_payoff reading `self`: the last round scores double
calculate_payoff_last_round_doubled(self, pm, cm) ==
    LET k == IF self.round = self.total_rounds THEN 2 ELSE 1
    IN  CASE pm = Cooperate /\ cm = Cooperate -> <<3 * k, 3 * k>>
          [] pm = Cooperate /\ cm = Defect -> <<0, 5 * k>>
          [] pm = Defect /\ cm = Cooperate -> <<5 * k, 0>>
          [] pm = Defect /\ cm = Defect -> <<1 * k, 1 * k>>

\* `self` is taken and not read.
calculate_payoff(self, pm, cm) ==
    CASE pm = Cooperate /\ cm = Cooperate -> <<3, 3>>
      [] pm = Cooperate /\ cm = Defect -> <<0, 5>>
      [] pm = Defect /\ cm = Cooperate -> <<5, 0>>
      [] pm = Defect /\ cm = Defect -> <<1, 1>>

----------------------------------------------------------------------------
(* The strategy selector. *)

\* history.iter().filter(|(p, _)| *p == Move::Defect).count()
DefectCount(history) == Cardinality({i \in 1..Len(history) : history[i][1] = Defect})

\* player_defect_rate > num/den. The code divides count by len in f32 and
\* compares with the f32 literal; for len <= 50 two distinct fractions
\* count/len and num/den differ by at least 1/500, far more than an f32 ulp,
\* and equal ones round to the same f32, so the f32 comparison is the exact one.
DefectRateAbove(history, num, den) == DefectCount(history) * den > num * Len(history)

Flip(m) == IF m = Cooperate THEN Defect ELSE Cooperate

\* Legendary's `strategy` before the final flip, on a non-empty history.
legendary_strategy(history, coin) ==
    LET last_move == history[Len(history)][1]
    IN  IF DefectRateAbove(history, 3, 10) THEN Defect
        ELSE IF last_move = Defect THEN Defect
        ELSE IF coin THEN Defect
        ELSE Cooperate

\* The arms of get_computer_move. coin: the result of the arm's gen_bool call
\* (0.7, 0.85, 0.6, 0.5), when the arm makes one; flip: the result of
\* Legendary's gen_bool(0.15).
easy_move(history, coin) == IF coin THEN Cooperate ELSE Defect

\* Medium mirroring the player's first move instead of the most recent one
medium_move_first(history, coin) ==
    IF history = <<>> THEN Cooperate
    ELSE LET last_player_move == history[1][1]
         IN  IF coin THEN last_player_move ELSE Defect

medium_move(history, coin) ==
    IF history = <<>> THEN Cooperate
    ELSE LET last_player_move == history[Len(history)][1]
         IN  IF coin THEN last_player_move ELSE Defect

\* Hard punishing from a defect rate of 0.4 on (>= for >)
hard_move_at_least(history, coin) ==
    IF history = <<>> THEN (IF coin THEN Cooperate ELSE Defect)
    ELSE IF DefectCount(history) * 10 >= 4 * Len(history) THEN Defect
    ELSE IF coin THEN Cooperate
    ELSE Defect

hard_move(history, coin) ==
    IF history = <<>> THEN (IF coin THEN Cooperate ELSE Defect)
    ELSE IF DefectRateAbove(history, 4, 10) THEN Defect
    ELSE IF coin THEN Cooperate
    ELSE Defect

\* Legendary applying the final flip only to a coin-chosen strategy
legendary_move_flip_on_coin_only(history, coin, flip) ==
    IF history = <<>> THEN (IF coin THEN Cooperate ELSE Defect)
    ELSE LET strategy == legendary_strategy(history, coin)
             forced == DefectRateAbove(history, 3, 10) \/ history[Len(history)][1] = Defect
         IN  IF flip /\ ~forced THEN Flip(strategy) ELSE strategy

legendary_move(history, coin, flip) ==
    IF history = <<>> THEN (IF coin THEN Cooperate ELSE Defect)
    ELSE LET strategy == legendary_strategy(history, coin)
         IN  IF flip THEN Flip(strategy) ELSE strategy

get_computer_move(history, d, coin, flip) ==
    CASE d = "Easy" -> easy_move(history, coin)
      [] d = "Medium" -> medium_move(history, coin)
      [] d = "Hard" -> hard_move(history, coin)
      [] d = "Legendary" -> legendary_move(history, coin, flip)

----------------------------------------------------------------------------
(* The statistics fold of main, in the order of its statements. Each step   *)
(* takes and returns [s |-> Statistics, panic |-> BOOLEAN]; with overflow   *)
(* checks on, the first overflowing addition panics and the statements      *)
(* after it do not run; with them off the addition wraps.                   *)

\* FoldIncrement leaving games_tied as it is
FoldIncrement_skipping_ties(r, f, checked) ==
    IF r.panic \/ f = "games_tied" THEN r
    ELSE IF r.s[f] = U32Max
         THEN (IF checked THEN [r EXCEPT !.panic = TRUE] ELSE [r EXCEPT !.s[f] = U32(0)])
         ELSE [r EXCEPT !.s[f] = U32Succ(@)]

\* a u32 field += 1
FoldIncrement(r, f, checked) ==
    IF r.panic THEN r
    ELSE IF r.s[f] = U32Max
         THEN (IF checked THEN [r EXCEPT !.panic = TRUE] ELSE [r EXCEPT !.s[f] = U32(0)])
         ELSE [r EXCEPT !.s[f] = U32Succ(@)]

\* a + b on i32 with b >= 0, wrapping
I32Overflows(a, b) == a > I32Max - b
I32WrappingAdd(a, b) == IF I32Overflows(a, b) THEN (((a - I32Max) - 1) + b) + I32Min ELSE a + b

\* stats.total_points += state.player_score
FoldPoints(r, pts, checked) ==
    IF r.panic THEN r
    ELSE IF I32Overflows(r.s.total_points, pts) /\ checked THEN [r EXCEPT !.panic = TRUE]
    ELSE [r EXCEPT !.s.total_points = I32WrappingAdd(@, pts)]

\* which of games_won / games_lost / games_tied the game counts in
OutcomeField(g) ==
    IF g.player_score > g.computer_score THEN "games_won"
    ELSE IF g.player_score < g.computer_score THEN "games_lost"
    ELSE "games_tied"

\* the differentials with max and min exchanged
FoldDifferentials_exchanged(r, score_diff) ==
    IF r.panic THEN r
    ELSE [r EXCEPT !.s.best_score_differential = Min(@, score_diff),
                   !.s.worst_score_differential = Max(@, score_diff)]

\* the differentials overwritten with the latest game's
FoldDifferentials_latest(r, score_diff) ==
    IF r.panic THEN r
    ELSE [r EXCEPT !.s.best_score_differential = score_diff,
                   !.s.worst_score_differential = score_diff]

FoldDifferentials(r, score_diff) ==
    IF r.panic THEN r
    ELSE [r EXCEPT !.s.best_score_differential = Max(@, score_diff),
                   !.s.worst_score_differential = Min(@, score_diff)]

FoldStatistics(s, g, checked) ==
    LET score_diff == g.player_score - g.computer_score
        r0 == [s |-> s, panic |-> FALSE]
        r1 == FoldIncrement(r0, "games_played", checked)
        r2 == FoldPoints(r1, g.player_score, checked)
        r3 == FoldIncrement(r2, OutcomeField(g), checked)
    IN  FoldDifferentials(r3, score_diff)

\* whether one of the fold's additions overflows its field
FoldOverflows(s, g) == FoldStatistics(s, g, TRUE).panic

----------------------------------------------------------------------------
(* Input tokens, after trim(). *)

Digit(d) ==
    CASE d = 0 -> "0" [] d = 1 -> "1" [] d = 2 -> "2" [] d = 3 -> "3" [] d = 4 -> "4"
      [] d = 5 -> "5" [] d = 6 -> "6" [] d = 7 -> "7" [] d = 8 -> "8" [] d = 9 -> "9"

\* the decimal numeral of n < 100
Numeral(n) == IF n < 10 THEN Digit(n) ELSE Digit(n \div 10) \o Digit(n % 10)

\* the texts str::parse::<u32> reads as n: digits, after a "+" or zeros too
UnsignedTexts(n) == {Numeral(n), "+" \o Numeral(n), "0" \o Numeral(n)}

\* str::parse::<u32> on the tokens used here: Ok(n) for a text of n < 100, Err
\* otherwise
UnsignedTable == [n \in 0..99 |-> UnsignedTexts(n)]
ParseU32(tok) ==
    IF \E n \in 0..99 : tok \in UnsignedTable[n]
    THEN [ok |-> TRUE, val |-> CHOOSE n \in 0..99 : tok \in UnsignedTable[n]]
    ELSE [ok |-> FALSE, val |-> 0]

\* str::to_lowercase on the tokens used here
ToLowercase(tok) ==
    CASE tok = "Y" -> "y" [] tok = "N" -> "n" [] tok = "YES" -> "yes" [] OTHER -> tok

MenuTokens == {"1", "2", "3", "4", "5", ""}
MoveTokens == {"1", "2", "3", "c", ""}
InvalidRoundTokens == {"abc", "", "-1", "0", "51"}
RoundTokens == InvalidRoundTokens \cup {Numeral(n) : n \in 1..MaxRounds}
AgainTokens == {"y", "Y", "n", "yes", ""}

DifficultyOf(tok) ==
    CASE tok = "1" -> "Easy" [] tok = "2" -> "Medium" [] tok = "3" -> "Hard"
      [] tok = "4" -> "Legendary"

MoveOf(tok) == IF tok = "1" THEN Cooperate ELSE Defect

----------------------------------------------------------------------------
(* The persisted records a run may start from. *)

TypicalRecord ==
    [games_played |-> U32(3), games_won |-> U32(1), games_lost |-> U32(1),
     games_tied |-> U32(1), total_points |-> 20,
     best_score_differential |-> 5, worst_score_differential |-> -10]

\* counters at u32::MAX
SaturatedRecord ==
    [TypicalRecord EXCEPT !.games_played = U32Max, !.games_won = U32Max]

\* total_points 3 below i32::MAX, games_lost at u32::MAX, best below worst
EdgeRecord ==
    [TypicalRecord EXCEPT !.total_points = I32Max - 3, !.games_lost = U32Max,
                          !.best_score_differential = -20,
                          !.worst_score_differential = 15]

InitialFiles ==
    {FileAbsent, FileCorrupt, FileOf(TypicalRecord), FileOf(SaturatedRecord),
     FileOf(EdgeRecord)}

----------------------------------------------------------------------------
(* main. *)

NoGame == GameState_new(0, "Easy")
\* no line read yet
NoInput == [t |-> "none", line |-> <<>>]
NoDifficulty == "Easy"

Init ==
    /\ pc = "menu"
    /\ file \in InitialFiles
    /\ stats = Statistics_new
    /\ difficulty = NoDifficulty
    /\ rounds = 0
    /\ iter = 0
    /\ state = NoGame
    /\ player_move = NoMove
    /\ computer_move = NoMove
    /\ overflow_checks = "unset"
    /\ games = 0
    /\ saves = 0
    /\ input = NoInput
    /\ loaded = Statistics_new
    /\ folded = <<>>

\* main_menu returned 1: let mut stats = Statistics::load(); then the difficulty menu
StartGame ==
    /\ stats' = Statistics_load(file)
    /\ loaded' = stats'
    /\ folded' = <<>>
    /\ pc' = "difficulty"
    /\ UNCHANGED <<file, difficulty, rounds, iter, state, player_move, computer_move,
                   overflow_checks, games, saves>>

\* ViewStats writing back the record it loaded
ViewStats_saving ==
    /\ stats' = Statistics_load(file)
    /\ loaded' = stats'
    /\ pc' = "view_stats"
    /\ file' = Statistics_save(stats', file, "written")
    /\ UNCHANGED <<difficulty, rounds, iter, state, player_move, computer_move,
                   overflow_checks, games, saves, folded>>

\* main_menu returned 2: load and display_stats, which waits for Enter
ViewStats ==
    /\ stats' = Statistics_load(file)
    /\ loaded' = stats'
    /\ pc' = "view_stats"
    /\ UNCHANGED <<file, difficulty, rounds, iter, state, player_move, computer_move,
                   overflow_checks, games, saves, folded>>

\* main_menu returned 3: display_rules, which waits for Enter
ViewRules ==
    /\ pc' = "rules"
    /\ UNCHANGED <<file, stats, difficulty, rounds, iter, state, player_move,
                   computer_move, overflow_checks, games, saves, loaded, folded>>

\* main_menu returned 4: break out of main's loop
Quit ==
    /\ pc' = "exit"
    /\ UNCHANGED <<file, stats, difficulty, rounds, iter, state, player_move,
                   computer_move, overflow_checks, games, saves, loaded, folded>>

\* what read_line leaves in `input` when it returns Err: the line was not
\* valid UTF-8, or the read itself failed
ReadFailed == "<read error>"

\* the lines a prompt can be given
Lines(tokens) == tokens \cup {ReadFailed}

\* .expect("Failed to read line") on an Err: the panic unwinds main, whose
\* locals are dropped
ReadPanic ==
    /\ pc' = "read_failed"
    /\ stats' = Statistics_new
    /\ difficulty' = NoDifficulty
    /\ rounds' = 0
    /\ iter' = 0
    /\ state' = NoGame
    /\ player_move' = NoMove
    /\ computer_move' = NoMove
    /\ loaded' = Statistics_new
    /\ folded' = <<>>
    /\ UNCHANGED <<file, overflow_checks, games, saves>>

\* main_menu returns on 1..4 and prompts again on anything else; main then
\* dispatches on the choice
MainMenuLine(tok) ==
    CASE tok = ReadFailed -> ReadPanic
      [] tok = "1" -> StartGame
      [] tok = "2" -> ViewStats
      [] tok = "3" -> ViewRules
      [] tok = "4" -> Quit
      [] OTHER -> UNCHANGED program

MainMenu ==
    /\ pc = "menu"
    /\ \E tok \in Lines(MenuTokens) : MainMenuLine(tok)
    /\ UNCHANGED input

\* Enter at the end of display_stats or display_rules: back to the menu
ReturnToMenu ==
    /\ pc \in {"view_stats", "rules"}
    /\ pc' = "menu"
    /\ stats' = Statistics_new
    /\ loaded' = Statistics_new
    /\ UNCHANGED <<file, difficulty, rounds, iter, state, player_move, computer_move,
                   overflow_checks, games, saves, folded, input>>

\* print_difficulty_menu: 1..4 return a tier, anything else prompts again
ChooseDifficultyLine(tok) ==
    IF tok = ReadFailed
    THEN ReadPanic
    ELSE /\ IF tok \in {"1", "2", "3", "4"}
            THEN /\ difficulty' = DifficultyOf(tok)
                 /\ pc' = "rounds"
            ELSE UNCHANGED <<difficulty, pc>>
         /\ UNCHANGED <<file, stats, rounds, iter, state, player_move,
                        computer_move, overflow_checks, games, saves, loaded, folded>>

ChooseDifficulty ==
    /\ pc = "difficulty"
    /\ \E tok \in Lines(MenuTokens) : ChooseDifficultyLine(tok)
    /\ UNCHANGED input

\* the round-count prompt: a u32 in 1..50 creates the GameState and enters the
\* for loop; anything else prompts again
\* (max_games bounds the games one process plays)
EnterRoundsLine(tok, max_games) ==
    IF tok = ReadFailed
    THEN ReadPanic
    ELSE LET parsed == ParseU32(tok)
         IN  /\ IF parsed.ok /\ parsed.val >= 1 /\ parsed.val <= 50
                THEN /\ games < max_games
                     /\ state' = GameState_new(parsed.val, difficulty)
                     /\ rounds' = parsed.val
                     /\ iter' = 0
                     /\ games' = games + 1
                     /\ pc' = "loop"
                ELSE UNCHANGED <<state, rounds, iter, games, pc>>
             /\ UNCHANGED <<file, stats, difficulty, player_move, computer_move,
                            overflow_checks, saves, loaded, folded>>

EnterRounds ==
    /\ pc = "rounds"
    /\ \E tok \in Lines(RoundTokens) : EnterRoundsLine(tok, MaxGames)
    /\ UNCHANGED input

\* begin_round counting from the history instead of incrementing: the counter
\* then repeats a value whenever it is already ahead of the history
begin_round_from_history(s) == [s EXCEPT !.round = Len(s.history)]

\* state.round += 1
begin_round(s) == [s EXCEPT !.round = @ + 1]

\* record_round with the two payoffs added to the wrong scores
record_round_swapped(s, pm, cm, points) ==
    [s EXCEPT !.player_score = @ + points[2],
              !.computer_score = @ + points[1],
              !.history = Append(@, <<pm, cm>>)]

\* record_round keeping only the latest pair instead of pushing
record_round_overwriting(s, pm, cm, points) ==
    [s EXCEPT !.player_score = @ + points[1],
              !.computer_score = @ + points[2],
              !.history = <<<<pm, cm>>>>]

\* state.player_score += player_points; state.computer_score += computer_points;
\* state.history.push((player_move, computer_move))
record_round(s, pm, cm, points) ==
    [s EXCEPT !.player_score = @ + points[1],
              !.computer_score = @ + points[2],
              !.history = Append(@, <<pm, cm>>)]

\* the head of `for _ in 0..rounds` with an iteration left: state.round += 1,
\* the screen is drawn and get_player_move waits for input
BeginRound ==
    /\ pc = "loop"
    /\ iter < rounds
    /\ iter' = iter + 1
    /\ state' = begin_round(state)
    /\ pc' = "move"
    /\ UNCHANGED <<file, stats, difficulty, rounds, player_move, computer_move,
                   overflow_checks, games, saves, loaded, folded, input>>

\* get_player_move returns on 1 or 2 and prompts again on anything else; then
\* the rest of the loop body: the computer's move from the history so far, the
\* payoff, both scores, the push
\* PlayRoundLine pushing the player's move before the selector is called
PlayRoundLine_player_first(tok) ==
    IF tok = ReadFailed
    THEN ReadPanic
    ELSE /\ IF tok \in {"1", "2"}
            THEN \E coin \in BOOLEAN, flip \in BOOLEAN :
                    LET pm == MoveOf(tok)
                        cm == get_computer_move(Append(state.history, <<pm, pm>>),
                                                difficulty, coin, flip)
                        points == calculate_payoff(state, pm, cm)
                    IN  /\ player_move' = pm
                        /\ computer_move' = cm
                        /\ state' = record_round(state, pm, cm, points)
                        /\ pc' = "loop"
            ELSE UNCHANGED <<player_move, computer_move, state, pc>>
         /\ UNCHANGED <<file, stats, difficulty, rounds, iter, overflow_checks,
                        games, saves, loaded, folded>>

PlayRoundLine(tok) ==
    IF tok = ReadFailed
    THEN ReadPanic
    ELSE /\ IF tok \in {"1", "2"}
            THEN \E coin \in BOOLEAN, flip \in BOOLEAN :
                    LET pm == MoveOf(tok)
                        cm == get_computer_move(state.history, difficulty, coin, flip)
                        points == calculate_payoff(state, pm, cm)
                    IN  /\ player_move' = pm
                        /\ computer_move' = cm
                        /\ state' = record_round(state, pm, cm, points)
                        /\ pc' = "loop"
            ELSE UNCHANGED <<player_move, computer_move, state, pc>>
         /\ UNCHANGED <<file, stats, difficulty, rounds, iter, overflow_checks,
                        games, saves, loaded, folded>>

PlayRound ==
    /\ pc = "move"
    /\ \E tok \in Lines(MoveTokens) : PlayRoundLine(tok)
    /\ UNCHANGED input

\* the for loop is exhausted: the fold, stats.save(), display_game_summary,
\* which ends waiting for Enter; or a panic in the fold
FoldGame ==
    /\ pc = "loop"
    /\ iter = rounds
    /\ \E oc \in (IF overflow_checks = "unset" THEN {"on", "off"} ELSE {overflow_checks}),
          w \in WriteOutcomes :
          LET r == FoldStatistics(stats, state, oc = "on")
          IN  /\ overflow_checks' = IF FoldOverflows(stats, state) THEN oc ELSE overflow_checks
              /\ stats' = r.s
              /\ IF r.panic
                 THEN /\ pc' = "panicked"
                      /\ UNCHANGED <<file, saves, folded>>
                 ELSE /\ pc' = "summary"
                      /\ file' = Statistics_save(r.s, file, w)
                      /\ saves' = saves + 1
                      /\ folded' = Append(folded, [player_score |-> state.player_score,
                                                   computer_score |-> state.computer_score])
    /\ player_move' = NoMove
    /\ computer_move' = NoMove
    /\ UNCHANGED <<difficulty, rounds, iter, state, games, loaded, input>>

\* Enter after the summary: the play-again prompt
ContinueAfterSummary ==
    /\ pc = "summary"
    /\ pc' = "again"
    /\ UNCHANGED <<file, stats, difficulty, rounds, iter, state, player_move,
                   computer_move, overflow_checks, games, saves, loaded, folded, input>>

\* the play-again prompt: "y" goes round the inner loop to the round-count
\* prompt, anything else breaks out to the menu; `state` goes out of scope
\* either way, `stats` and `difficulty` only on break
PlayAgainLine(tok) ==
    IF tok = ReadFailed
    THEN ReadPanic
    ELSE /\ IF ToLowercase(tok) # "y"
            THEN /\ pc' = "menu"
                 /\ stats' = Statistics_new
                 /\ difficulty' = NoDifficulty
                 /\ loaded' = Statistics_new
                 /\ folded' = <<>>
            ELSE /\ pc' = "rounds"
                 /\ UNCHANGED <<stats, difficulty, loaded, folded>>
         /\ state' = NoGame
         /\ rounds' = 0
         /\ iter' = 0
         /\ UNCHANGED <<file, player_move, computer_move, overflow_checks, games,
                        saves>>

PlayAgain ==
    /\ pc = "again"
    /\ \E tok \in Lines(AgainTokens) : PlayAgainLine(tok)
    /\ UNCHANGED input

Next ==
    \/ MainMenu
    \/ ReturnToMenu
    \/ ChooseDifficulty
    \/ EnterRounds
    \/ BeginRound
    \/ PlayRound
    \/ FoldGame
    \/ ContinueAfterSummary
    \/ PlayAgain

Spec == Init /\ [][Next]_vars

----------------------------------------------------------------------------
(* main with the lines read at its prompts recorded in `input`. A line is  *)
(* a sequence of words and white space characters, as read_line returns    *)
(* it: the newline included, if the input did not end before one.          *)

WhiteSpace == {" ", "\t", "\r", "\n"}

RECURSIVE TrimStart(_)
TrimStart(line) ==
    IF line # <<>> /\ Head(line) \in WhiteSpace THEN TrimStart(Tail(line)) ELSE line

RECURSIVE TrimEnd(_)
TrimEnd(line) ==
    IF line # <<>> /\ line[Len(line)] \in WhiteSpace
    THEN TrimEnd(SubSeq(line, 1, Len(line) - 1))
    ELSE line

RECURSIVE Text(_)
Text(line) == IF line = <<>> THEN "" ELSE Head(line) \o Text(Tail(line))

\* str::trim
Trim(line) == Text(TrimEnd(TrimStart(line)))

\* what read_line returned: Ok with the line, or Err
ReadOk(line) == [t |-> "ok", line |-> line]
ReadErr == [t |-> "err", line |-> <<>>]

\* the token a prompt matches on
TokenOf(r) == IF r.t = "err" THEN ReadFailed ELSE Trim(r.line)

\* a token typed and entered
Entered(tok) == IF tok = "" THEN <<"\n">> ELSE <<tok, "\n">>

\* the end of the input: read_line returns Ok with nothing read
EndOfInput == <<>>

Reads(lines) == {ReadOk(line) : line \in lines} \cup {ReadErr}

MenuLines == {Entered(tok) : tok \in MenuTokens} \cup {<<" ", "4", "\t", "\n">>}
DifficultyLines == {Entered(tok) : tok \in MenuTokens} \cup {<<"2", "\r", "\n">>}
RoundLines ==
    {Entered(tok) : tok \in InvalidRoundTokens}
        \cup {<<"1", "\n">>, <<" ", "1", " ", "\n">>, <<"+1", "\n">>,
              <<"1", " ", "1", "\n">>, EndOfInput}
MoveLines == {Entered(tok) : tok \in MoveTokens} \cup {<<"2", " ", "\n">>, <<"1", "2", "\n">>}
AgainLines ==
    {Entered(tok) : tok \in AgainTokens}
        \cup {<<" ", "y", " ", "\n">>, <<"\t", "Y", "\r", "\n">>, <<"y">>,
              <<"y", " ", "y", "\n">>, <<"YES", "\n">>, EndOfInput}

MainMenuRead ==
    /\ pc = "menu"
    /\ \E r \in Reads(MenuLines) :
          /\ MainMenuLine(TokenOf(r))
          /\ input' = r

ChooseDifficultyRead ==
    /\ pc = "difficulty"
    /\ \E r \in Reads(DifficultyLines) :
          /\ ChooseDifficultyLine(TokenOf(r))
          /\ input' = r

EnterRoundsRead ==
    /\ pc = "rounds"
    /\ \E r \in Reads(RoundLines) :
          /\ EnterRoundsLine(TokenOf(r), MaxInputGames)
          /\ input' = r

PlayRoundRead ==
    /\ pc = "move"
    /\ \E r \in Reads(MoveLines) :
          /\ PlayRoundLine(TokenOf(r))
          /\ input' = r

PlayAgainRead ==
    /\ pc = "again"
    /\ \E r \in Reads(AgainLines) :
          /\ PlayAgainLine(TokenOf(r))
          /\ input' = r

NextInput ==
    \/ MainMenuRead
    \/ ReturnToMenu
    \/ ChooseDifficultyRead
    \/ EnterRoundsRead
    \/ BeginRound
    \/ PlayRoundRead
    \/ FoldGame
    \/ ContinueAfterSummary
    \/ PlayAgainRead

\* from no file, or from a file whose record the fold overflows
InitInput == Init /\ file \in {FileAbsent, FileOf(EdgeRecord)}

SpecInput == InitInput /\ [][NextInput]_vars

----------------------------------------------------------------------------
(* GameStates by replay, for the specifications that start from one. *)

Pairs == Move \X Move
HistoriesUpTo(n) == UNION {[1..k -> Pairs] : k \in 0..n}

\* the moves get_computer_move can return
PossibleMoves(history, d) ==
    {get_computer_move(history, d, coin, flip) : coin \in BOOLEAN, flip \in BOOLEAN}

\* a history the round loop can produce at difficulty d
Playable(h, d) ==
    \A k \in 1..Len(h) : h[k][2] \in PossibleMoves(SubSeq(h, 1, k - 1), d)

RECURSIVE Replay(_, _, _)
\* the GameState after the rounds of h have been played, rounds k.. still to replay
Replay(s, h, k) ==
    IF k > Len(h) THEN s
    ELSE Replay(record_round(begin_round(s), h[k][1], h[k][2],
                             calculate_payoff(s, h[k][1], h[k][2])), h, k + 1)

GameAfter(h, total_rounds, d) == Replay(GameState_new(total_rounds, d), h, 1)

FinishedGames(d) ==
    {GameAfter(h, Len(h), d) : h \in {x \in HistoriesUpTo(MaxFoldRounds) : x # <<>> /\ Playable(x, d)}}

----------------------------------------------------------------------------
(* The selector on its own: get_computer_move applied to any history of    *)
(* at most MaxHist rounds, at every difficulty.                            *)

InitSelector ==
    /\ pc = "select"
    /\ file = FileAbsent
    /\ stats = Statistics_new
    /\ difficulty \in Difficulty
    /\ rounds = MaxHist + 1
    /\ \E h \in HistoriesUpTo(MaxHist) :
          /\ state = begin_round(GameAfter(h, MaxHist + 1, difficulty))
          /\ iter = Len(h) + 1
    /\ player_move = NoMove
    /\ computer_move = NoMove
    /\ overflow_checks = "unset"
    /\ games = 1
    /\ saves = 0
    /\ input = NoInput
    /\ loaded = stats
    /\ folded = <<>>

\* let computer_move = get_computer_move(&state.history, difficulty);
SelectMove ==
    /\ pc = "select"
    /\ \E coin \in BOOLEAN, flip \in BOOLEAN :
          computer_move' = get_computer_move(state.history, difficulty, coin, flip)
    /\ pc' = "selected"
    /\ UNCHANGED <<file, stats, difficulty, rounds, iter, state, player_move,
                   overflow_checks, games, saves, loaded, folded, input>>

SpecSelector == InitSelector /\ [][SelectMove]_vars

----------------------------------------------------------------------------
(* The fold on its own: finished games folded one after another into the   *)
(* record loaded at the start, the play between two folds taken as one step.*)

InitFold ==
    /\ pc = "loop"
    /\ file \in InitialFiles
    /\ stats = Statistics_load(file)
    /\ difficulty \in Difficulty
    /\ state \in FinishedGames(difficulty)
    /\ rounds = state.total_rounds
    /\ iter = rounds
    /\ player_move = state.history[Len(state.history)][1]
    /\ computer_move = state.history[Len(state.history)][2]
    /\ overflow_checks = "unset"
    /\ games = 1
    /\ saves = 0
    /\ input = NoInput
    /\ loaded = stats
    /\ folded = <<>>

\* Enter, "y", a round count and the rounds of the next game
PlayNextGame ==
    /\ pc = "summary"
    /\ Len(folded) < MaxFolds
    /\ state' \in FinishedGames(difficulty)
    /\ rounds' = state'.total_rounds
    /\ iter' = rounds'
    /\ player_move' = state'.history[Len(state'.history)][1]
    /\ computer_move' = state'.history[Len(state'.history)][2]
    /\ games' = games + 1
    /\ pc' = "loop"
    /\ UNCHANGED <<file, stats, difficulty, overflow_checks, saves, loaded, folded, input>>

NextFold == FoldGame \/ PlayNextGame

SpecFold == InitFold /\ [][NextFold]_vars

----------------------------------------------------------------------------
(* save and load on their own: a record is saved over a file and the file  *)
(* is loaded, or the file is loaded as it was found.                       *)

U32Samples ==
    {U32(0), U32(99999), U32(I32Max), [hi |-> 1, lo |-> 0], [hi |-> 1, lo |-> 16352],
     U32Max}
I32Samples == {I32Min, -100000, -1, 0, 100000, I32Max}

PersistRecords ==
    {[games_played |-> a, games_won |-> b, games_lost |-> a, games_tied |-> b,
      total_points |-> x, best_score_differential |-> y,
      worst_score_differential |-> x] : a, b \in U32Samples, x, y \in I32Samples}

TypicalMembers == to_string_pretty(TypicalRecord)

\* files no save of this program wrote: a member short, a member of another
\* kind, numbers outside their field's type, numbers no integer visitor takes
ForeignFiles ==
    {FileUnreadable, FileWith(NoMembers),
     FileWith([TypicalMembers EXCEPT !["games_won"] = JsonNoMember]),
     FileWith([TypicalMembers EXCEPT !["total_points"] = JsonOther]),
     FileWith([TypicalMembers EXCEPT !["games_lost"] = JsonNum(TRUE, <<1>>)]),
     FileWith([TypicalMembers EXCEPT
                  !["games_tied"] = JsonNum(FALSE, <<4, 2, 9, 4, 9, 6, 7, 2, 9, 6>>)]),
     FileWith([TypicalMembers EXCEPT
                  !["games_played"] = JsonNum(FALSE, <<1, 0, 0, 0, 0, 0, 0, 0, 0, 0, 0>>)]),
     FileWith([TypicalMembers EXCEPT
                  !["best_score_differential"] =
                      JsonNum(FALSE, <<2, 1, 4, 7, 4, 8, 3, 6, 4, 8>>)]),
     FileWith([TypicalMembers EXCEPT
                  !["worst_score_differential"] =
                      JsonNum(TRUE, <<2, 1, 4, 7, 4, 8, 3, 6, 4, 9>>)]),
     FileWith([TypicalMembers EXCEPT
                  !["worst_score_differential"] = JsonNum(TRUE, <<0>>)]),
     FileWith([TypicalMembers EXCEPT !["total_points"] = JsonNum(FALSE, <<0, 7>>)])}

PersistFiles == InitialFiles \cup ForeignFiles

InitPersist ==
    /\ pc = "persist"
    /\ file \in PersistFiles
    /\ stats \in PersistRecords
    /\ difficulty = NoDifficulty
    /\ rounds = 0
    /\ iter = 0
    /\ state = NoGame
    /\ player_move = NoMove
    /\ computer_move = NoMove
    /\ overflow_checks = "unset"
    /\ games = 0
    /\ saves = 0
    /\ input = NoInput
    /\ loaded = Statistics_new
    /\ folded = <<>>

\* stats.save(); pc keeps what became of the write
SaveRecord ==
    /\ pc = "persist"
    /\ \E w \in WriteOutcomes :
          /\ file' = Statistics_save(stats, file, w)
          /\ pc' = w
    /\ saves' = saves + 1
    /\ UNCHANGED <<stats, difficulty, rounds, iter, state, player_move, computer_move,
                   overflow_checks, games, loaded, folded, input>>

\* Statistics::load(), its result kept in `loaded` next to the record saved
LoadRecord ==
    /\ pc \in {"persist"} \cup WriteOutcomes
    /\ loaded' = Statistics_load(file)
    /\ pc' = IF pc = "written" THEN "reloaded" ELSE "loaded"
    /\ UNCHANGED <<file, stats, difficulty, rounds, iter, state, player_move,
                   computer_move, overflow_checks, games, saves, folded, input>>

NextPersist == SaveRecord \/ LoadRecord

SpecPersist == InitPersist /\ [][NextPersist]_vars

----------------------------------------------------------------------------
(* Properties. *)

\* the payoff matrix of the specification, section 4.1
PayoffTable(pm, cm) ==
    IF pm = Cooperate
    THEN (IF cm = Cooperate THEN <<3, 3>> ELSE <<0, 5>>)
    ELSE (IF cm = Cooperate THEN <<5, 0>> ELSE <<1, 1>>)

RECURSIVE PayoffSum(_, _)
\* the sum over the pairs of h of the payoff of side i (1 the player, 2 the opponent)
PayoffSum(h, i) ==
    IF h = <<>> THEN 0
    ELSE PayoffSum(SubSeq(h, 1, Len(h) - 1), i) + PayoffTable(h[Len(h)][1], h[Len(h)][2])[i]

\* a GameState is in scope
InGame == pc \in {"loop", "move", "summary", "again"}

\* the for loop has run all its iterations
Finished == pc \in {"summary", "again"} \/ (pc = "loop" /\ iter = rounds)

\* C1: in every state of every game, whatever the moves and the difficulty,
\* player_score is the sum of the player's payoffs and computer_score the sum
\* of the opponent's payoffs over the pairs recorded in history.
C1_ScoresAreHistorySums ==
    /\ state.player_score = PayoffSum(state.history, 1)
    /\ state.computer_score = PayoffSum(state.history, 2)

\* a finished two-round game in which both sides scored, unequally
C1_Witness ==
    /\ Finished
    /\ Len(state.history) = 2
    /\ state.player_score = 8
    /\ state.computer_score = 3

\* C2, the state part: between rounds the history is as long as the round
\* counter (0 and empty before the first round); while a round waits for the
\* player's move the counter is one ahead; the counter never exceeds total_rounds.
C2_RoundMatchesHistory ==
    /\ pc # "move" => Len(state.history) = state.round
    /\ pc = "move" => Len(state.history) + 1 = state.round
    /\ state.round <= state.total_rounds

\* C2, the step part: while a GameState lives, a step either leaves the
\* history alone or appends exactly one pair to it, and it appends exactly
\* when a round completes.
C2_AppendOnlyStep ==
    (InGame /\ pc' \in {"loop", "move", "summary", "again", "panicked"}) =>
        /\ \/ state'.history = state.history
           \/ /\ Len(state'.history) = Len(state.history) + 1
              /\ SubSeq(state'.history, 1, Len(state.history)) = state.history
        /\ (pc = "move" /\ pc' = "loop") <=> (state'.history # state.history)

\* C2: len(history) == round after each round completes, round <= total_rounds
\* always, and history is append-only, one pair per round.
C2_RoundHistoryInvariant == [](C2_RoundMatchesHistory) /\ [][C2_AppendOnlyStep]_vars

\* the second round of a game has completed, the first round's pair still in place
C2_Witness ==
    /\ pc = "loop"
    /\ state.round = 2
    /\ state.history = <<<<Defect, Cooperate>>, <<Cooperate, Defect>>>>

\* C3: calculate_payoff returns the matrix entry of the two moves, whatever
\* GameState it is called on (round, difficulty, scores, history), with
\* payoff sums 6, 5, 5 and 2.
C3_PayoffMatrix ==
    /\ calculate_payoff(state, Cooperate, Cooperate) = <<3, 3>>
    /\ calculate_payoff(state, Cooperate, Defect) = <<0, 5>>
    /\ calculate_payoff(state, Defect, Cooperate) = <<5, 0>>
    /\ calculate_payoff(state, Defect, Defect) = <<1, 1>>
    /\ \A pm \in Move, cm \in Move :
          LET p == calculate_payoff(state, pm, cm)
          IN  p[1] + p[2] = (IF pm = Cooperate /\ cm = Cooperate THEN 6
                             ELSE IF pm = Defect /\ cm = Defect THEN 2 ELSE 5)

\* the last round of a two-round Hard game has been scored: defect against cooperate
C3_Witness ==
    /\ pc = "loop"
    /\ difficulty = "Hard"
    /\ state.round = 2
    /\ state.total_rounds = 2
    /\ player_move = Defect
    /\ computer_move = Cooperate
    /\ state.player_score = PayoffSum(SubSeq(state.history, 1, 1), 1) + 5
    /\ state.computer_score = PayoffSum(SubSeq(state.history, 1, 1), 2)

\* C4, the state part: the loop counter and the round counter agree; a game
\* is finished exactly when, at the loop head, round == total_rounds; a
\* finished game has played total_rounds rounds.
C4_RoundCount ==
    /\ InGame => state.round = iter /\ state.total_rounds = rounds
    /\ pc = "loop" => ((iter = rounds) <=> (state.round = state.total_rounds))
    /\ (InGame /\ Finished) =>
          /\ state.round = state.total_rounds
          /\ Len(state.history) = state.total_rounds

\* C4, the step part: within a game the round counter changes only by going
\* from r to r + 1 at the start of a round, each round takes one accepted
\* player move, and a finished GameState is not changed while it lives.
C4_RoundStep ==
    (InGame /\ pc' \in {"loop", "move", "summary", "again", "panicked"}) =>
        /\ state'.round # state.round =>
              /\ state'.round = state.round + 1
              /\ pc = "loop" /\ pc' = "move"
        /\ (pc = "move" /\ pc' = "loop") =>
              /\ player_move' \in Move
              /\ state'.history = Append(state.history, <<player_move', computer_move'>>)
        /\ (pc = "loop" /\ pc' = "move") => state'.history = state.history
        /\ Finished => state' = state

\* C4: a game with total_rounds = N plays exactly N rounds, numbered 1..N with
\* none skipped or repeated, is finished exactly when round == total_rounds,
\* and is not mutated once finished.
C4_ExactlyNRounds == [](C4_RoundCount) /\ [][C4_RoundStep]_vars

\* a two-round game has been folded and waits at the play-again prompt
C4_Witness ==
    /\ pc = "again"
    /\ state.total_rounds = 2
    /\ state.round = 2
    /\ Len(state.history) = 2
    /\ Len(folded) = 1

----------------------------------------------------------------------------
(* Properties of the selector. *)

IsPlayerDefect(e) == e[1] = Defect

\* the number of rounds of h in which the player defected
PlayerDefections(h) == Len(SelectSeq(h, IsPlayerDefect))

\* the player's defect fraction over all of h is strictly greater than num/den
DefectFractionExceeds(h, num, den) == PlayerDefections(h) * den > num * Len(h)

LastPlayerMove(h) == h[Len(h)][1]

Opposite(m) == IF m = Defect THEN Cooperate ELSE Defect

\* h with one of the opponent's moves replaced
OpponentVariants(h) == {[h EXCEPT ![i] = <<h[i][1], cm>>] : i \in 1..Len(h), cm \in Move}

\* a non-empty h changed in anything but the player's most recent move: an
\* earlier pair replaced, the oldest pair dropped, or an opponent's move replaced
PastVariants(h) ==
    {[h EXCEPT ![i] = p] : i \in 1..(Len(h) - 1), p \in Pairs}
        \cup OpponentVariants(h)
        \cup (IF Len(h) > 1 THEN {Tail(h)} ELSE {})

\* C5: Medium returns Cooperate on the empty history; on a non-empty one it
\* returns the player's most recent move or Defect, hence Defect after a
\* Defect and Cooperate only after a Cooperate; nothing but the player's most
\* recent move changes the possible results.
C5_MediumMirrorsLastMove ==
    difficulty = "Medium" =>
        LET h == state.history
            moves == PossibleMoves(h, "Medium")
        IN  /\ h = <<>> => moves = {Cooperate}
            /\ h # <<>> =>
                  /\ moves \subseteq {LastPlayerMove(h), Defect}
                  /\ LastPlayerMove(h) = Defect => moves = {Defect}
                  /\ Cooperate \in moves => LastPlayerMove(h) = Cooperate
                  /\ \A g \in PastVariants(h) : PossibleMoves(g, "Medium") = moves
            /\ pc = "selected" =>
                  computer_move \in (IF h = <<>> THEN {Cooperate}
                                     ELSE {LastPlayerMove(h), Defect})

\* Medium answered Cooperate to a player who defected twice and then cooperated
C5_Witness ==
    /\ pc = "selected"
    /\ difficulty = "Medium"
    /\ Len(state.history) = 3
    /\ state.history[1][1] = Defect
    /\ state.history[2][1] = Defect
    /\ state.history[3][1] = Cooperate
    /\ computer_move = Cooperate

\* C6: Hard returns Defect and nothing else on a non-empty history whose
\* player defect fraction, over the whole history, exceeds 0.4; on the empty
\* history and on a fraction of 0.4 or less both moves are possible; the
\* opponent's own past moves change nothing.
C6_HardPunishesAboveFourTenths ==
    difficulty = "Hard" =>
        LET h == state.history
            moves == PossibleMoves(h, "Hard")
            punished == h # <<>> /\ DefectFractionExceeds(h, 4, 10)
        IN  /\ punished => moves = {Defect}
            /\ ~punished => moves = {Cooperate, Defect}
            /\ \A g \in OpponentVariants(h) : PossibleMoves(g, "Hard") = moves
            /\ (pc = "selected" /\ punished) => computer_move = Defect

\* Hard cooperated after 2 defections in 5 rounds (exactly 0.4), the last two
\* rounds both defections
C6_Witness ==
    /\ pc = "selected"
    /\ difficulty = "Hard"
    /\ Len(state.history) = 5
    /\ PlayerDefections(state.history) = 2
    /\ state.history[4][1] = Defect
    /\ state.history[5][1] = Defect
    /\ computer_move = Cooperate

\* C7: on a non-empty history Legendary's strategy before the flip is Defect
\* when the player's defect fraction exceeds 0.3, otherwise Defect when the
\* player's most recent move is Defect, and only otherwise either move; the
\* result is that strategy without the flip and its opposite with it, so both
\* moves are possible on every branch.
C7_LegendaryBaseAndFlip ==
    (difficulty = "Legendary" /\ state.history # <<>>) =>
        LET h == state.history
            bases == {legendary_strategy(h, coin) : coin \in BOOLEAN}
            above == DefectFractionExceeds(h, 3, 10)
        IN  /\ above => bases = {Defect}
            /\ (~above /\ LastPlayerMove(h) = Defect) => bases = {Defect}
            /\ (~above /\ LastPlayerMove(h) = Cooperate) => bases = {Cooperate, Defect}
            /\ \A coin \in BOOLEAN :
                  /\ get_computer_move(h, "Legendary", coin, FALSE) = legendary_strategy(h, coin)
                  /\ get_computer_move(h, "Legendary", coin, TRUE)
                        = Opposite(legendary_strategy(h, coin))
            /\ PossibleMoves(h, "Legendary") = {Cooperate, Defect}

\* Legendary cooperated although the player's defect fraction is above 0.3
C7_Witness ==
    /\ pc = "selected"
    /\ difficulty = "Legendary"
    /\ Len(state.history) = 3
    /\ PlayerDefections(state.history) = 1
    /\ LastPlayerMove(state.history) = Cooperate
    /\ computer_move = Cooperate

----------------------------------------------------------------------------
(* Properties of the statistics fold. *)

\* a step that folds a finished game and gets as far as the summary
FoldCompletes == pc = "loop" /\ pc' = "summary"

\* y is the u32 x plus one, as integers
IsU32PlusOne(y, x) ==
    \/ x.lo < I32Max /\ y.hi = x.hi /\ y.lo = x.lo + 1
    \/ x.hi = 0 /\ x.lo = I32Max /\ y.hi = 1 /\ y.lo = 0

\* z is the i32 x plus the score pts >= 0, as integers
IsI32Sum(z, x, pts) == x <= I32Max - pts /\ z = x + pts

OutcomeCounters == {"games_won", "games_lost", "games_tied"}

\* the outcome counter the specification assigns to a final score
OutcomeCounterOf(p, c) ==
    IF p > c THEN "games_won" ELSE IF p < c THEN "games_lost" ELSE "games_tied"

\* what the fold of one game is to do to the counters and the point total
CountersFolded ==
    LET counter == OutcomeCounterOf(state.player_score, state.computer_score)
    IN  /\ IsU32PlusOne(stats'.games_played, stats.games_played)
        /\ IsI32Sum(stats'.total_points, stats.total_points, state.player_score)
        /\ IsU32PlusOne(stats'[counter], stats[counter])
        /\ \A other \in OutcomeCounters \ {counter} : stats'[other] = stats[other]

\* C8: the fold of a completed game adds 1 to games_played, the player's
\* final score to total_points, and 1 to exactly one of games_won,
\* games_lost, games_tied, chosen by comparing the two final scores.
C8_FoldCounters == [][FoldCompletes => CountersFolded]_vars

\* C8 where it holds: when none of the three additions leaves its field's range
C8_FoldCountersInRange ==
    [][(FoldCompletes /\ ~FoldOverflows(stats, state)) => CountersFolded]_vars

Differential(g) == g.player_score - g.computer_score
FoldedDifferentials == {Differential(folded[i]) : i \in 1..Len(folded)}
Greatest(S) == CHOOSE x \in S : \A y \in S : y <= x
Least(S) == CHOOSE x \in S : \A y \in S : x <= y

\* `stats` holds one and the same record before and after the step
SameRecord ==
    /\ pc \in {"difficulty", "rounds", "loop", "move", "summary", "again"}
    /\ pc' \in {"difficulty", "rounds", "loop", "move", "summary", "again", "panicked"}

C9_DifferentialsStep ==
    SameRecord =>
        /\ stats'.best_score_differential >= stats.best_score_differential
        /\ stats'.worst_score_differential <= stats.worst_score_differential
        /\ FoldCompletes =>
              LET diff == state.player_score - state.computer_score
              IN  /\ stats'.best_score_differential
                        = (IF stats.best_score_differential >= diff
                           THEN stats.best_score_differential ELSE diff)
                  /\ stats'.worst_score_differential
                        = (IF stats.worst_score_differential <= diff
                           THEN stats.worst_score_differential ELSE diff)

C9_DifferentialsBracket ==
    \A d \in FoldedDifferentials :
        stats.worst_score_differential <= d /\ d <= stats.best_score_differential

\* C9: over the games folded into a record, best_score_differential never
\* decreases and worst_score_differential never increases; each fold sets them
\* to the max and the min of the previous value and the game's differential, so
\* the differential of every game folded so far lies between worst and best.
C9_DifferentialsMonotone == [](C9_DifferentialsBracket) /\ [][C9_DifferentialsStep]_vars

\* a win by 5 and then a loss by 5 folded into the fresh record
C9_Witness ==
    /\ pc = "summary"
    /\ loaded = Statistics_new
    /\ Len(folded) = 2
    /\ Differential(folded[1]) = 5
    /\ Differential(folded[2]) = -5
    /\ stats.best_score_differential = 5
    /\ stats.worst_score_differential = -5

\* C10 as stated: after folding games into the fresh record, best is the
\* greatest and worst the least of their differentials.
C10_DifferentialsAreExtremes ==
    (loaded = Statistics_new /\ folded # <<>>) =>
        /\ stats.best_score_differential = Greatest(FoldedDifferentials)
        /\ stats.worst_score_differential = Least(FoldedDifferentials)

\* C10 amended: after folding games into the fresh record, in whatever order,
\* best is the greatest and worst the least of 0 and their differentials.
C10_DifferentialsAreExtremesWithZero ==
    (loaded = Statistics_new /\ folded # <<>>) =>
        /\ stats.best_score_differential = Greatest(FoldedDifferentials \cup {0})
        /\ stats.worst_score_differential = Least(FoldedDifferentials \cup {0})

\* two losses by 5 folded into the fresh record: best stays 0
C10_Witness ==
    /\ pc = "summary"
    /\ loaded = Statistics_new
    /\ Len(folded) = 2
    /\ FoldedDifferentials = {-5}
    /\ stats.best_score_differential = 0
    /\ stats.worst_score_differential = -5

----------------------------------------------------------------------------
(* The fold over several games. *)

\* the builds the run so far is consistent with: overflow checks on (TRUE),
\* off (FALSE), or either while no addition has overflowed
Builds ==
    IF overflow_checks = "on" THEN {TRUE}
    ELSE IF overflow_checks = "off" THEN {FALSE}
    ELSE BOOLEAN

\* the fold applied to the games of a sequence, one after another
RECURSIVE FoldAll(_, _, _)
FoldAll(s, gs, checked) ==
    IF gs = <<>> THEN [s |-> s, panic |-> FALSE]
    ELSE LET r == FoldStatistics(s, Head(gs), checked)
         IN  IF r.panic THEN r ELSE FoldAll(r.s, Tail(gs), checked)

\* C11: the fold is order-independent: when two finished games g1, g2 have
\* been folded into a record s, folding g2 and then g1 into s would have given
\* the same record in all seven fields.
C11_FoldOrderIndependent ==
    (pc = "summary" /\ Len(folded) = 2) =>
        \A checked \in Builds :
            LET swapped == FoldAll(loaded, <<folded[2], folded[1]>>, checked)
            IN  /\ ~swapped.panic
                /\ \A k \in Fields : swapped.s[k] = stats[k]

\* a win by 5 and then a loss by 5 folded into a record whose total_points
\* wrapped on the way
C11_Witness ==
    /\ pc = "summary"
    /\ Len(folded) = 2
    /\ folded[1].player_score - folded[1].computer_score = 5
    /\ folded[2].player_score - folded[2].computer_score = -5
    /\ overflow_checks = "off"

----------------------------------------------------------------------------
(* The statistics record and its file over a session. *)

\* the for loop of a game is exhausted: the next step is the fold
AtFold == pc = "loop" /\ iter = rounds

\* `stats` is a live local of main before and after the step
StatsInScope ==
    /\ pc \in {"difficulty", "rounds", "loop", "move", "summary", "again"}
    /\ pc' \in {"difficulty", "rounds", "loop", "move", "summary", "again"}

\* C12: statistics are mutated exactly once per completed game and saved
\* immediately after that mutation, before the summary and the play-again
\* prompt; the file is written at no other point, so a game that is not
\* finished leaves the file as it was.
C12_FoldAndSaveStep ==
    /\ AtFold =>
          /\ pc' = "summary"
          /\ stats' # stats
          /\ saves' = saves + 1
          /\ file' \in {FileOf(stats'), file, FileCorrupt}
    /\ ~AtFold =>
          /\ file' = file
          /\ saves' = saves
          /\ StatsInScope => stats' = stats

C12_SavedOncePerCompletedGame == [][C12_FoldAndSaveStep]_vars

----------------------------------------------------------------------------
(* The prompts. *)

\* the step reads at the prompt `at`: a line, or a read that fails
ReadsAt(at) == pc = at /\ input'.t \in {"ok", "err"}
ReadsLineAt(at) == pc = at /\ input'.t = "ok"
ReadFailsAt(at) == pc = at /\ input'.t = "err"

\* the step leaves the program where it was, at the same prompt
PromptsAgain == UNCHANGED program

\* lines that are no round count: not a number, or one outside 1..50
InvalidCountLines ==
    {Entered("abc"), Entered(""), Entered("-1"), Entered("0"), Entered("51"),
     <<"1", " ", "1", "\n">>, EndOfInput}

\* input at the round-count prompt that is no round count: such a line, or
\* bytes that are no text at all
InvalidCountRead ==
    \/ ReadsLineAt("rounds") /\ input'.line \in InvalidCountLines
    \/ ReadFailsAt("rounds")

C13_CreatedGamesInRange ==
    InGame => state.total_rounds \in 1..50 /\ rounds = state.total_rounds

C13_NoGameNoChange ==
    /\ state' = NoGame
    /\ games' = games
    /\ file' = file
    /\ pc' # "read_failed" => stats' = stats

\* C13: a round-count input that is not a number or is outside 1..50 creates
\* no GameState, plays no round and changes no statistics, and the prompt is
\* shown again; every game that is created has total_rounds in 1..50.
C13_InvalidCountPromptsAgain ==
    /\ [](C13_CreatedGamesInRange)
    /\ [][InvalidCountRead => PromptsAgain /\ C13_NoGameNoChange]_vars

\* C13 for the lines read_line returns, and what is left of it when the read
\* fails: no game and no change of the file
C13_InvalidCountLinePromptsAgain ==
    /\ [](C13_CreatedGamesInRange)
    /\ [][/\ InvalidCountRead => C13_NoGameNoChange
          /\ (ReadsLineAt("rounds") /\ input'.line \in InvalidCountLines)
                => PromptsAgain]_vars

----------------------------------------------------------------------------
(* The history the selector is given. *)

\* the loop body of a round runs to its end
RoundPlayed == pc = "move" /\ pc' = "loop"

\* the round can be played with player move pm answered by cm
CanAnswer(pm, cm) ==
    ENABLED (PlayRound /\ pc' = "loop" /\ player_move' = pm /\ computer_move' = cm)

C14_HistoryBeforeRound ==
    pc = "move" =>
        /\ Len(state.history) = state.round - 1
        /\ state.history = <<>> <=> state.round = 1
        /\ \A cm \in Move : CanAnswer(Cooperate, cm) <=> CanAnswer(Defect, cm)
        /\ \E cm \in Move : CanAnswer(Cooperate, cm)

C14_SelectorStep ==
    RoundPlayed =>
        /\ computer_move' \in PossibleMoves(state.history, difficulty)
        /\ state'.history = Append(state.history, <<player_move', computer_move'>>)

\* C14: in round r the opponent's move is computed from the r-1 pairs recorded
\* before the round, whatever the player enters in round r; that history is
\* empty exactly in round 1, where every tier still answers; and the selector
\* leaves the history as it was, the round's pair being pushed after it.
C14_OpponentSeesEarlierRounds ==
    [](C14_HistoryBeforeRound) /\ [][C14_SelectorStep]_vars

\* round 2 at Medium played: the opponent defected on the player's defection
\* of round 1 while the player cooperated in round 2
C14_Witness ==
    /\ pc = "loop"
    /\ difficulty = "Medium"
    /\ state.round = 2
    /\ state.history[1][1] = Defect
    /\ state.history[2] = <<Cooperate, Defect>>

----------------------------------------------------------------------------
(* Properties of load and save. *)

\* the file is a text holding exactly the record s
Holds(f, s) ==
    /\ f.kind = "text"
    /\ f.json
    /\ \A k \in Fields : f.members[k] = to_string_pretty(s)[k]

\* the file is absent, unreadable, no JSON object, or an object in which a
\* member is missing or is no number
Unusable(f) ==
    \/ f.kind \in {"absent", "unreadable"}
    \/ ~f.json
    \/ \E k \in Fields : f.members[k].t # "num"

\* C15: Statistics::load returns either the complete record written in the
\* file or the fresh all-zero record, never a mixture of fields read and
\* fields defaulted; for a file that is absent, unreadable or does not parse
\* it returns the fresh record, and it always returns.
C15_LoadAllOrNothing ==
    /\ pc \in {"loaded", "reloaded"} =>
          /\ loaded = Statistics_new \/ Holds(file, loaded)
          /\ Unusable(file) => loaded = Statistics_new
    /\ pc \in {"persist"} \cup WriteOutcomes => ENABLED LoadRecord

\* loaded from a file that has games_played 3 but no games_won
C15_Witness ==
    /\ pc = "loaded"
    /\ file.json
    /\ file.members["games_played"] = JsonNum(FALSE, <<3>>)
    /\ file.members["games_won"] = JsonNoMember
    /\ loaded = Statistics_new

\* C19: a record saved with a write that succeeds and then loaded, no other
\* writer in between, comes back equal in all seven fields.
C19_SaveLoadRoundTrip ==
    pc = "reloaded" => \A k \in Fields : loaded[k] = stats[k]

\* a record with counters at u32::MAX, total_points at i32::MIN and best at
\* i32::MAX, saved and loaded
C19_Witness ==
    /\ pc = "reloaded"
    /\ saves = 1
    /\ stats.games_played = U32Max
    /\ stats.total_points = I32Min
    /\ stats.best_score_differential = I32Max
    /\ loaded.games_played = U32Max

----------------------------------------------------------------------------
(* Malformed input and the ways the process ends. *)

\* lines that are no answer to the prompt they are read at
MalformedLinesAt(at) ==
    CASE at = "menu" -> {Entered("5"), Entered("")}
      [] at = "difficulty" -> {Entered("5"), Entered("")}
      [] at = "rounds" -> InvalidCountLines
      [] at = "move" -> {Entered("3"), Entered("c"), Entered(""), <<"1", "2", "\n">>}

ChoicePrompts == {"menu", "difficulty", "rounds", "move"}

\* the step reads such a line
MalformedLineRead ==
    \E at \in ChoicePrompts : ReadsLineAt(at) /\ input'.line \in MalformedLinesAt(at)

\* the step reads malformed input: such a line, or bytes that are no text
MalformedRead ==
    \/ MalformedLineRead
    \/ \E at \in ChoicePrompts : ReadFailsAt(at)

\* the process has ended by a panic
Panicked == pc \in {"panicked", "read_failed"}

\* the process ends by returning from main only on 4 at the main menu
ExitsByQuit ==
    (pc # "exit" /\ pc' = "exit") => (ReadsLineAt("menu") /\ Trim(input'.line) = "4")

\* C16: malformed input at the main menu, the difficulty menu, the round
\* count and the player move is answered by prompting again, without limit,
\* with GameState and Statistics unchanged and the round not advanced, and
\* does not end the session; the process ends through its own control flow
\* by the quit option only.
C16_MalformedInputPromptsAgain ==
    /\ [](~Panicked)
    /\ [][MalformedRead => PromptsAgain]_vars
    /\ [][ExitsByQuit]_vars

\* C16 for the lines read_line returns
C16_MalformedLinePromptsAgain ==
    /\ [][MalformedLineRead => PromptsAgain]_vars
    /\ [][ExitsByQuit]_vars

----------------------------------------------------------------------------
(* The additions of the fold. *)

\* C17: the fold has no error condition: for every record load can return,
\* whatever u32 and i32 values it holds, and every finished game, the fold
\* completes and none of its additions overflows.
C17_FoldNeverOverflows ==
    /\ [](overflow_checks = "unset" /\ pc # "panicked")
    /\ [][AtFold => pc' = "summary"]_vars

\* C17 for the records none of whose fields is at the end of its type
C17_FoldInRangeCompletes ==
    /\ [](loaded \in {Statistics_new, TypicalRecord}
            => overflow_checks = "unset" /\ pc # "panicked")
    /\ [][(AtFold /\ loaded \in {Statistics_new, TypicalRecord})
            => pc' = "summary"]_vars

----------------------------------------------------------------------------
(* The play-again prompt. *)

\* "y" in either case, with or without white space around it
AffirmativeLines ==
    {Entered("y"), Entered("Y"), <<" ", "y", " ", "\n">>, <<"\t", "Y", "\r", "\n">>,
     <<"y">>}

\* the step goes round the play loop: the round count is asked again, with
\* the difficulty and the in-memory Statistics kept
PlaysAgain ==
    /\ pc' = "rounds"
    /\ difficulty' = difficulty
    /\ stats' = stats
    /\ loaded' = loaded
    /\ folded' = folded

\* the step leaves the play loop for the main menu
LeavesPlayLoop == pc' = "menu" /\ games' = games /\ state' = NoGame

\* a game after the first of a play loop has the difficulty chosen before the
\* first, and the record holds the games folded since it was loaded
SameDifficultyAndRecord ==
    (InGame /\ Len(folded) >= 1) =>
        /\ state.difficulty = difficulty
        /\ \A checked \in Builds : stats = FoldAll(loaded, folded, checked).s

NextGameStep ==
    (pc = "rounds" /\ pc' = "loop") =>
        /\ state'.difficulty = difficulty
        /\ difficulty' = difficulty
        /\ stats' = stats

\* C18: after a completed game the affirmative answer, "y" in either case
\* with white space around it ignored, leads to the round count being asked
\* again and another game at the same difficulty folded into the same
\* in-memory Statistics; any other answer ends the play loop and returns to
\* the main menu without another round.
C18_PlayAgain ==
    /\ [](SameDifficultyAndRecord)
    /\ [][NextGameStep]_vars
    /\ [][ReadsAt("again") =>
             IF input'.t = "ok" /\ input'.line \in AffirmativeLines
             THEN PlaysAgain ELSE LeavesPlayLoop]_vars

\* C18 for the lines read_line returns
C18_PlayAgainLine ==
    /\ [](SameDifficultyAndRecord)
    /\ [][NextGameStep]_vars
    /\ [][ReadsLineAt("again") =>
             IF input'.line \in AffirmativeLines
             THEN PlaysAgain ELSE LeavesPlayLoop]_vars

----------------------------------------------------------------------------
(* The counters from the fresh record. *)

\* the record in memory started as Statistics::new()
FromFresh == loaded = Statistics_new

RECURSIVE SumOfPlayerScores(_)
SumOfPlayerScores(gs) ==
    IF gs = <<>> THEN 0 ELSE Head(gs).player_score + SumOfPlayerScores(Tail(gs))

\* C21: starting from the fresh all-zero record, after any sequence of
\* completed games games_played is the number of games folded and equals
\* games_won + games_lost + games_tied, and total_points is the sum of the
\* player's final scores of those games.
C21_CountersFromFresh ==
    (FromFresh /\ pc \in {"loop", "summary"}) =>
        /\ \A k \in U32Fields : stats[k].hi = 0
        /\ stats.games_played.lo = Len(folded)
        /\ stats.games_played.lo =
              stats.games_won.lo + stats.games_lost.lo + stats.games_tied.lo
        /\ stats.total_points = SumOfPlayerScores(folded)

\* a win 5:0 and a tie 3:3 folded into the fresh record
C21_Witness ==
    /\ pc = "summary"
    /\ FromFresh
    /\ Len(folded) = 2
    /\ stats.games_played = U32(2)
    /\ stats.games_won = U32(1)
    /\ stats.games_tied = U32(1)
    /\ stats.total_points = 8

----------------------------------------------------------------------------
(* The score differential. *)

MultipleOf5(n) == n % 5 = 0
Within(n, bound) == -bound <= n /\ n <= bound

\* the scores of a GameState against the number of rounds in its history
ScoresInRange(g) ==
    LET n == Len(g.history)
    IN  /\ MultipleOf5(Differential(g))
        /\ Within(Differential(g), 5 * n)
        /\ 0 <= g.player_score /\ g.player_score <= 5 * n
        /\ 0 <= g.computer_score /\ g.computer_score <= 5 * n
        /\ n <= g.total_rounds /\ g.total_rounds <= 50

\* C22: in every reachable GameState the differential is a multiple of 5
\* within 5 * len(history) either way and both scores lie in
\* 0 .. 5 * len(history); every differential folded is a multiple of 5 in
\* -250 .. 250, and so are best_score_differential and
\* worst_score_differential of a record that started fresh.
C22_DifferentialMultipleOf5 ==
    /\ ScoresInRange(state)
    /\ \A i \in 1..Len(folded) :
          /\ MultipleOf5(Differential(folded[i]))
          /\ Within(Differential(folded[i]), 250)
    /\ FromFresh =>
          \A k \in {"best_score_differential", "worst_score_differential"} :
              MultipleOf5(stats[k]) /\ Within(stats[k], 250)

\* two rounds lost 0:5 each, folded into the fresh record
C22_Witness ==
    /\ pc = "summary"
    /\ FromFresh
    /\ Len(state.history) = 2
    /\ Differential(state) = -10
    /\ folded = <<[player_score |-> 0, computer_score |-> 10]>>
    /\ stats.worst_score_differential = -10
    /\ stats.best_score_differential = 0

----------------------------------------------------------------------------
(* main under fairness. The steps that wait for nothing -- entering the     *)
(* next iteration of the for loop, and the fold, save and summary once the  *)
(* loop is exhausted -- are taken whenever they stay possible; the steps    *)
(* that wait at a prompt are the player's and carry no fairness.            *)

\* the round-count prompt of a session of one game
EnterRoundsOnce ==
    /\ pc = "rounds"
    /\ \E tok \in Lines(RoundTokens) : EnterRoundsLine(tok, 1)
    /\ UNCHANGED input

NextLive ==
    \/ MainMenu
    \/ ReturnToMenu
    \/ ChooseDifficulty
    \/ EnterRoundsOnce
    \/ BeginRound
    \/ PlayRound
    \/ FoldGame
    \/ ContinueAfterSummary
    \/ PlayAgain

SpecLive == Init /\ [][NextLive]_vars /\ WF_vars(BeginRound) /\ WF_vars(FoldGame)

\* every move prompt is eventually answered with an accepted move
MovesSupplied == [](pc = "move" => <>(pc = "loop"))

\* GameState::new(rounds, difficulty) has just run
GameCreated ==
    /\ pc = "loop"
    /\ iter = 0
    /\ rounds >= 1
    /\ state = GameState_new(rounds, difficulty)

\* the for loop is exhausted with one history entry per round
AllRoundsPlayed == AtFold /\ Len(state.history) = rounds /\ state.round = rounds

\* the game's result is in the record and stats.save() has been called
FoldedAndSaved ==
    /\ pc \in {"summary", "again"}
    /\ Len(state.history) = rounds
    /\ Len(folded) >= 1
    /\ folded[Len(folded)] = [player_score |-> state.player_score,
                              computer_score |-> state.computer_score]
    /\ saves = games

C23_GameReachesFinished == MovesSupplied => (GameCreated ~> AllRoundsPlayed)

\* C23, the order: the play-again prompt is never reached without the fold
\* and the save of the game just played.
C23_PlayAgainAfterSave == pc = "again" => FoldedAndSaved

\* C23 for a record the fold keeps in range: from the fresh record the game
\* created is folded and saved.
C23_FreshGameFoldedAndSaved ==
    MovesSupplied => ((GameCreated /\ FromFresh) ~> (pc = "summary" /\ FoldedAndSaved))

\* a two-round game at its summary, folded and saved
C23_Witness == pc = "summary" /\ rounds = 2 /\ FoldedAndSaved

\* the fold panicked: all rounds played, nothing saved
C23_FoldPanicked == pc = "panicked" /\ Len(state.history) = rounds /\ rounds >= 1 /\ saves = 0

----------------------------------------------------------------------------
(* Writes of the persisted record. *)

\* the file is written, or stats.save() is called at all
Writes == file' # file \/ saves' # saves

\* C24: viewing the statistics, viewing the rules and a game up to its
\* completion never write the persisted record: the only step that calls
\* stats.save() is the one after the last round of a game, so a missing or
\* unparsable file stays as it is, its all-zero substitute in memory only,
\* until a game has completed.
C24_OnlyCompletedGameWrites ==
    [][Writes => (AtFold /\ Len(state.history) = rounds /\ pc' = "summary")]_vars

\* the statistics screen showing the all-zero substitute of an unparsable file
C24_Witness ==
    /\ pc = "view_stats"
    /\ file = FileCorrupt
    /\ stats = Statistics_new
    /\ saves = 0

====
